---- MODULE Spec2Model ----
(***************************************************************************)
(* Model of excel_tables_verifier.py: the BGN -> EUR price verifier.       *)
(*                                                                         *)
(* Cell text is a sequence of one-character strings.  A Decimal is a       *)
(* record [kind, sign, int, exp] as in Python's decimal module: kind is    *)
(* "F" (finite), "Inf", "NaN" or "sNaN"; int is the coefficient as a       *)
(* sequence of digits 0..9 (for a NaN: the diagnostic payload); the value  *)
(* of a finite Decimal is (-1)^sign * int * 10^exp.  Coefficients are kept *)
(* as digit sequences so that the 28-digit context precision is modelled   *)
(* at its real width.  Python's None is the record None, and a raised      *)
(* decimal.InvalidOperation is the record InvalidOperation.                *)
(*                                                                         *)
(* The cells the model draws are ASCII and their exponents are small:      *)
(* subnormal results (below Etiny) and non-ASCII digits or whitespace do   *)
(* not occur and are not modelled.                                         *)
(***************************************************************************)
EXTENDS Integers, Sequences, FiniteSets, TLC

\* ------------------------------------------------------------------------
\* Python's None, and the exception the decimal context traps
\* ------------------------------------------------------------------------
None == [kind |-> "None", sign |-> 0, int |-> <<>>, exp |-> 0]

InvalidOperation == [kind |-> "InvalidOperation", sign |-> 0, int |-> <<>>, exp |-> 0]

\* the default decimal context: prec=28, rounding=ROUND_HALF_EVEN, Emax=999999
Prec == 28

Emax == 999999

\* ------------------------------------------------------------------------
\* characters and strings
\* ------------------------------------------------------------------------
DigitChars == <<"0", "1", "2", "3", "4", "5", "6", "7", "8", "9">>

IsDigitChar(c) == \E d \in 1..10 : DigitChars[d] = c

DigitOf(c) == (CHOOSE d \in 1..10 : DigitChars[d] = c) - 1

WhiteSpace == {" ", "\t", "\n"}

UpperChars == <<"A", "E", "F", "I", "N", "S", "T", "Y">>

LowerChars == <<"a", "e", "f", "i", "n", "s", "t", "y">>

\* str.lower() on one character (the letters the Decimal grammar names)
Lower(c) ==
  IF \E k \in 1..Len(UpperChars) : UpperChars[k] = c
    THEN LowerChars[CHOOSE k \in 1..Len(UpperChars) : UpperChars[k] = c]
    ELSE c

LowerStr(s) == [k \in 1..Len(s) |-> Lower(s[k])]

\* str.replace(old, new) for a one-character old and a new of length <= 1
RECURSIVE Replace(_, _, _)
Replace(s, old, new) ==
  IF s = <<>> THEN <<>>
  ELSE (IF Head(s) = old THEN new ELSE <<Head(s)>>) \o Replace(Tail(s), old, new)

RECURSIVE LStrip(_)
LStrip(s) ==
  IF s # <<>> /\ Head(s) \in WhiteSpace THEN LStrip(Tail(s)) ELSE s

RECURSIVE RStrip(_)
RStrip(s) ==
  IF s # <<>> /\ s[Len(s)] \in WhiteSpace THEN RStrip(SubSeq(s, 1, Len(s) - 1)) ELSE s

\* str.strip()
Strip(s) == RStrip(LStrip(s))

\* length of the longest prefix of s made of decimal digits
RECURSIVE DigitPrefixLen(_)
DigitPrefixLen(s) ==
  IF s # <<>> /\ IsDigitChar(Head(s)) THEN 1 + DigitPrefixLen(Tail(s)) ELSE 0

Drop(s, n) == SubSeq(s, n + 1, Len(s))

Take(s, n) == SubSeq(s, 1, n)

CharsToDigits(s) == [k \in 1..Len(s) |-> DigitOf(s[k])]

DigitsToChars(ds) == [k \in 1..Len(ds) |-> DigitChars[ds[k] + 1]]

\* ------------------------------------------------------------------------
\* arithmetic on digit sequences (most significant digit first)
\* ------------------------------------------------------------------------
Zeros(n) == [k \in 1..n |-> 0]

AllZeros(ds) == \A k \in 1..Len(ds) : ds[k] = 0

\* str(int(digits)): no leading zeros, "0" for zero
RECURSIVE StripLeadingZeros(_)
StripLeadingZeros(ds) ==
  IF ds = <<>> THEN <<0>>
  ELSE IF Head(ds) = 0 /\ Len(ds) > 1 THEN StripLeadingZeros(Tail(ds))
  ELSE ds

\* the integer a short digit sequence denotes
RECURSIVE DigitsToInt(_)
DigitsToInt(ds) ==
  IF ds = <<>> THEN 0
  ELSE DigitsToInt(SubSeq(ds, 1, Len(ds) - 1)) * 10 + ds[Len(ds)]

\* the digits of a natural number
RECURSIVE IntToDigits(_)
IntToDigits(n) ==
  IF n < 10 THEN <<n>> ELSE Append(IntToDigits(n \div 10), n % 10)

\* digits + 1
RECURSIVE DigitsInc(_)
DigitsInc(ds) ==
  IF ds = <<>> THEN <<1>>
  ELSE IF ds[Len(ds)] < 9 THEN [ds EXCEPT ![Len(ds)] = @ + 1]
  ELSE Append(DigitsInc(SubSeq(ds, 1, Len(ds) - 1)), 0)

\* schoolbook division of a digit sequence by a small positive integer
RECURSIVE DigitsDivMod(_, _)
DigitsDivMod(ds, d) ==
  IF ds = <<>> THEN [q |-> <<>>, r |-> 0]
  ELSE LET p == DigitsDivMod(SubSeq(ds, 1, Len(ds) - 1), d)
           cur == p.r * 10 + ds[Len(ds)]
       IN [q |-> Append(p.q, cur \div d), r |-> cur % d]

PadLeft(ds, n) == Zeros(n - Len(ds)) \o ds

\* -1, 0, 1 as x < y, x = y, x > y, for sequences of equal length
RECURSIVE DigitsCmpEq(_, _)
DigitsCmpEq(x, y) ==
  IF x = <<>> THEN 0
  ELSE IF Head(x) < Head(y) THEN -1
  ELSE IF Head(x) > Head(y) THEN 1
  ELSE DigitsCmpEq(Tail(x), Tail(y))

DigitsCmp(x, y) ==
  LET n == IF Len(x) > Len(y) THEN Len(x) ELSE Len(y)
  IN DigitsCmpEq(PadLeft(x, n), PadLeft(y, n))

\* x + y for sequences of equal length; the result has one more digit
RECURSIVE DigitsAddEq(_, _)
DigitsAddEq(x, y) ==
  IF x = <<>> THEN <<0>>
  ELSE LET p == DigitsAddEq(SubSeq(x, 1, Len(x) - 1), SubSeq(y, 1, Len(y) - 1))
           s == x[Len(x)] + y[Len(y)]
       IN IF s < 10 THEN Append(p, s)
          ELSE Append(DigitsInc(p), s - 10)

DigitsAdd(x, y) ==
  LET n == IF Len(x) > Len(y) THEN Len(x) ELSE Len(y)
  IN StripLeadingZeros(DigitsAddEq(PadLeft(x, n), PadLeft(y, n)))

\* nine's complement
Nines(x) == [k \in 1..Len(x) |-> 9 - x[k]]

\* x - y for x >= y
DigitsSub(x, y) ==
  LET n == IF Len(x) > Len(y) THEN Len(x) ELSE Len(y)
      \* x - y = x + (10^n - 1 - y) + 1 - 10^n
      s == DigitsInc(DigitsAddEq(PadLeft(x, n), Nines(PadLeft(y, n))))
  IN StripLeadingZeros(Drop(PadLeft(s, n + 1), 1))

\* ------------------------------------------------------------------------
\* decimal.Decimal
\* ------------------------------------------------------------------------
Finite(sign, int, exp) == [kind |-> "F", sign |-> sign, int |-> int, exp |-> exp]

IsNone(x) == x.kind = "None"

Raised(x) == x.kind = "InvalidOperation"

IsNaN(x) == x.kind \in {"NaN", "sNaN"}

\* Decimal.adjusted(): the exponent of the most significant digit
Adjusted(x) == x.exp + Len(x.int) - 1

\* the exponent part of a numeric string: "" or [eE][-+]?\d+ ; the exponent
\* value, or None when the text is not an exponent part
ParseExponent(s) ==
  IF s = <<>> THEN Finite(0, <<0>>, 0)
  ELSE IF Lower(Head(s)) # "e" THEN None
  ELSE LET t == Tail(s)
           neg == t # <<>> /\ Head(t) = "-"
           u == IF t # <<>> /\ Head(t) \in {"-", "+"} THEN Tail(t) ELSE t
       IN IF u # <<>> /\ DigitPrefixLen(u) = Len(u)
            THEN Finite(IF neg THEN 1 ELSE 0, CharsToDigits(u), 0)
            ELSE None

\* Decimal(str): surrounding whitespace and underscores are dropped, then
\*   [-+]? ( \d* (\.\d*)? (E[-+]?\d+)?  with a digit | Inf(inity)? | s?NaN\d* )
\* case-insensitively; anything else raises InvalidOperation
DecimalFromString(str) ==
  LET s0 == Replace(Strip(str), "_", <<>>)
      sign == IF s0 # <<>> /\ Head(s0) = "-" THEN 1 ELSE 0
      s == IF s0 # <<>> /\ Head(s0) \in {"-", "+"} THEN Tail(s0) ELSE s0
      low == LowerStr(s)
      n1 == DigitPrefixLen(s)
      r1 == Drop(s, n1)
      hasdot == r1 # <<>> /\ Head(r1) = "."
      n2 == IF hasdot THEN DigitPrefixLen(Tail(r1)) ELSE 0
      frac == IF hasdot THEN Take(Tail(r1), n2) ELSE <<>>
      r2 == IF hasdot THEN Drop(Tail(r1), n2) ELSE r1
      e == ParseExponent(r2)
      ev == IF e.sign = 1 THEN 0 - DigitsToInt(e.int) ELSE DigitsToInt(e.int)
      isnan == Len(low) >= 3 /\ Take(low, 3) = <<"n", "a", "n">>
                 /\ DigitPrefixLen(Drop(low, 3)) = Len(low) - 3
      issnan == Len(low) >= 4 /\ Take(low, 4) = <<"s", "n", "a", "n">>
                 /\ DigitPrefixLen(Drop(low, 4)) = Len(low) - 4
      diag(k) == IF AllZeros(CharsToDigits(Drop(low, k))) THEN <<>>
                 ELSE StripLeadingZeros(CharsToDigits(Drop(low, k)))
  IN IF n1 + n2 >= 1 THEN
       (IF IsNone(e) THEN InvalidOperation
        ELSE Finite(sign, StripLeadingZeros(CharsToDigits(Take(s, n1) \o frac)), ev - n2))
     ELSE IF low = <<"i", "n", "f">> \/ low = <<"i", "n", "f", "i", "n", "i", "t", "y">>
       THEN [kind |-> "Inf", sign |-> sign, int |-> <<0>>, exp |-> 0]
     ELSE IF isnan THEN [kind |-> "NaN", sign |-> sign, int |-> diag(3), exp |-> 0]
     ELSE IF issnan THEN [kind |-> "sNaN", sign |-> sign, int |-> diag(4), exp |-> 0]
     ELSE InvalidOperation

\* Decimal._round_half_up / _round_half_even at `digits` kept digits:
\* TRUE when the kept coefficient is to be incremented
RoundHalfUp(int, digits) == int[digits + 1] >= 5

RoundHalfEven(int, digits) ==
  LET exacthalf == int[digits + 1] = 5 /\ AllZeros(Drop(int, digits + 1))
  IN IF exacthalf /\ (digits = 0 \/ int[digits] % 2 = 0) THEN FALSE
     ELSE RoundHalfUp(int, digits)

\* Decimal._fix(context): round a finite result to Prec digits with the
\* context's ROUND_HALF_EVEN; Overflow (trapped) past Emax
Fix(x) ==
  IF x.kind # "F" \/ AllZeros(x.int) THEN x
  ELSE LET exp_min == Len(x.int) + x.exp - Prec
       IN IF exp_min + Prec - 1 > Emax THEN InvalidOperation
          ELSE IF x.exp < exp_min THEN
            LET kept == Take(x.int, Prec)
                up == IF RoundHalfEven(x.int, Prec) THEN DigitsInc(kept) ELSE kept
            IN IF Len(up) > Prec
                 THEN Finite(x.sign, Take(up, Prec), exp_min + 1)
                 ELSE Finite(x.sign, up, exp_min)
          ELSE x

RECURSIVE TrailingZeros(_)
TrailingZeros(ds) ==
  IF ds # <<>> /\ ds[Len(ds)] = 0 THEN 1 + TrailingZeros(SubSeq(ds, 1, Len(ds) - 1)) ELSE 0

Min(a, b) == IF a < b THEN a ELSE b

Max(a, b) == IF a > b THEN a ELSE b

\* Decimal.__truediv__(x, y) for a finite non-zero y whose coefficient is a
\* machine integer (the divisor constant)
Divide(x, y) ==
  IF x.kind = "sNaN" THEN InvalidOperation
  ELSE IF x.kind = "NaN" THEN x
  ELSE IF x.kind = "Inf" THEN [x EXCEPT !.sign = (x.sign + y.sign) % 2]
  ELSE
    LET sign == (x.sign + y.sign) % 2
        ideal_exp == x.exp - y.exp
        d == DigitsToInt(y.int)
        shift == Len(y.int) - Len(x.int) + Prec + 1
        exp == x.exp - y.exp - shift
        dm == IF shift >= 0 THEN DigitsDivMod(x.int \o Zeros(shift), d)
              ELSE DigitsDivMod(Take(x.int, Len(x.int) + shift), d)
        inexact == dm.r # 0
                     \/ (shift < 0 /\ ~AllZeros(Drop(x.int, Len(x.int) + shift)))
        q == StripLeadingZeros(dm.q)
        last == q[Len(q)]
        sticky == IF inexact /\ last % 5 = 0 THEN [q EXCEPT ![Len(q)] = @ + 1] ELSE q
        strip == IF inexact \/ exp >= ideal_exp THEN 0
                 ELSE Min(Min(TrailingZeros(q), ideal_exp - exp), Len(q) - 1)
    IN IF AllZeros(x.int) THEN Finite(sign, <<0>>, ideal_exp)
       ELSE Fix(Finite(sign, Take(sticky, Len(sticky) - strip), exp + strip))

\* Decimal._rescale(exp, ROUND_HALF_UP)
Rescale(x, exp) ==
  IF AllZeros(x.int) THEN Finite(x.sign, <<0>>, exp)
  ELSE IF x.exp >= exp THEN Finite(x.sign, x.int \o Zeros(x.exp - exp), exp)
  ELSE LET digits == Len(x.int) + x.exp - exp
           int == IF digits < 0 THEN <<1>> ELSE x.int
           keep == Max(digits, 0)
           coeff == StripLeadingZeros(Take(int, keep))
       IN Finite(x.sign, IF RoundHalfUp(int, keep) THEN DigitsInc(coeff) ELSE coeff, exp)

\* Decimal.quantize(q, rounding=ROUND_HALF_UP) for a finite q
Quantize(x, q) ==
  IF x.kind = "sNaN" THEN InvalidOperation
  ELSE IF x.kind = "NaN" THEN x
  ELSE IF x.kind = "Inf" THEN InvalidOperation
  ELSE IF AllZeros(x.int) THEN Finite(x.sign, <<0>>, q.exp)
  ELSE IF Adjusted(x) > Emax THEN InvalidOperation
  ELSE IF Adjusted(x) - q.exp + 1 > Prec THEN InvalidOperation
  ELSE LET ans == Rescale(x, q.exp)
       IN IF Len(ans.int) > Prec THEN InvalidOperation ELSE ans

\* Decimal.__ne__ of two results of normalize: a NaN differs from everything;
\* finite values of one exponent differ when their signed coefficients do
\* (+0.00 and -0.00 are equal)
NotEqual(x, y) ==
  IF IsNaN(x) \/ IsNaN(y) THEN TRUE
  ELSE IF AllZeros(x.int) /\ AllZeros(y.int) THEN FALSE
  ELSE ~(x.sign = y.sign /\ x.int = y.int /\ x.exp = y.exp)

\* Decimal.__sub__ of two results of normalize (finite with one exponent, or
\* a quiet NaN)
Subtract(x, y) ==
  IF IsNaN(x) THEN x
  ELSE IF IsNaN(y) THEN y
  ELSE IF x.sign # y.sign THEN Fix(Finite(x.sign, DigitsAdd(x.int, y.int), x.exp))
  ELSE IF DigitsCmp(x.int, y.int) = 0 THEN Finite(0, Zeros(1), x.exp)
  ELSE IF DigitsCmp(x.int, y.int) > 0 THEN Finite(x.sign, DigitsSub(x.int, y.int), x.exp)
  ELSE Finite(1 - x.sign, DigitsSub(y.int, x.int), x.exp)

\* Decimal.__str__ (what an f-string of a Decimal gives)
DecimalToString(x) ==
  LET sign == IF x.sign = 1 THEN <<"-">> ELSE <<>>
      int == DigitsToChars(x.int)
      leftdigits == x.exp + Len(x.int)
      dotplace == IF x.exp <= 0 /\ leftdigits > -6 THEN leftdigits ELSE 1
      intpart == IF dotplace <= 0 THEN <<"0">>
                 ELSE IF dotplace >= Len(int) THEN int \o DigitsToChars(Zeros(dotplace - Len(int)))
                 ELSE Take(int, dotplace)
      fracpart == IF dotplace <= 0 THEN <<".">> \o DigitsToChars(Zeros(0 - dotplace)) \o int
                  ELSE IF dotplace >= Len(int) THEN <<>>
                  ELSE <<".">> \o Drop(int, dotplace)
      e == leftdigits - dotplace
      exp == IF e = 0 THEN <<>>
             ELSE <<"E", IF e < 0 THEN "-" ELSE "+">>
                    \o DigitsToChars(IntToDigits(IF e < 0 THEN 0 - e ELSE e))
  IN IF x.kind = "Inf" THEN sign \o <<"I", "n", "f", "i", "n", "i", "t", "y">>
     ELSE IF x.kind = "NaN" THEN sign \o <<"N", "a", "N">> \o int
     ELSE IF x.kind = "sNaN" THEN sign \o <<"s", "N", "a", "N">> \o int
     ELSE sign \o intpart \o fracpart \o exp

\* ------------------------------------------------------------------------
\* raw cell values, as openpyxl gives them: None, an int, a float or a str.
\* A float is its value in hundredths (n), or one of nan / inf / -inf (s).
\* ------------------------------------------------------------------------
CellNone == [tag |-> "None", n |-> 0, s |-> <<>>]

CellInt(n) == [tag |-> "int", n |-> n, s |-> <<>>]

CellFloat(n) == [tag |-> "float", n |-> n, s |-> <<>>]

CellFloatSpecial(s) == [tag |-> "float", n |-> 0, s |-> s]

CellStr(s) == [tag |-> "str", n |-> 0, s |-> s]

Abs(n) == IF n < 0 THEN 0 - n ELSE n

\* str(int)
IntStr(n) == (IF n < 0 THEN <<"-">> ELSE <<>>) \o DigitsToChars(IntToDigits(Abs(n)))

\* str(float): the shortest decimal that reads back as the float
FloatStr(n) ==
  LET f == Abs(n) % 100
      frac == IF f % 10 = 0 THEN <<f \div 10>> ELSE <<f \div 10, f % 10>>
  IN (IF n < 0 THEN <<"-">> ELSE <<>>)
       \o DigitsToChars(IntToDigits(Abs(n) \div 100)) \o <<".">> \o DigitsToChars(frac)

\* str(number_str) of line 15
PyStr(cell) ==
  IF cell.tag = "str" THEN cell.s
  ELSE IF cell.tag = "int" THEN IntStr(cell.n)
  ELSE IF cell.s # <<>> THEN cell.s
  ELSE FloatStr(cell.n)

\* ------------------------------------------------------------------------
\* the program's constants and helper functions
\* ------------------------------------------------------------------------
BGN_TO_EUR_DIVISOR == DecimalFromString(<<"1", ".", "9", "5", "5", "8", "3">>)

TWO_PLACES == DecimalFromString(<<"0", ".", "0", "1">>)

\* parse_decimal: None for an empty cell and for text Decimal() rejects
parse_decimal(number_str) ==
  IF number_str.tag = "None" THEN None
  ELSE LET cleaned_str == Replace(Replace(PyStr(number_str), " ", <<>>), ",", <<".">>)
           d == DecimalFromString(cleaned_str)
       IN IF Raised(d) THEN None ELSE d

\* normalize: quantize to two places, ROUND_HALF_UP (may raise)
normalize(decimal) == Quantize(decimal, TWO_PLACES)

Result(is_mismatch, calc, given) ==
  [is_mismatch |-> is_mismatch, calc_eur |-> calc, given_eur |-> given]

\* the body of verify_row's try block for a bgn_val that is not None; every
\* exception raised on the way is swallowed into (False, None, None)
verify_row_body(bgn_val, eur_val) ==
  LET calculated_eur == Divide(bgn_val, BGN_TO_EUR_DIVISOR)
      normalized_calc_eur == normalize(calculated_eur)
      eur_price_normalized == normalize(eur_val)
  IN IF Raised(calculated_eur) \/ Raised(normalized_calc_eur)
       THEN Result(FALSE, None, None)
     ELSE IF ~IsNone(eur_val) THEN
       (IF Raised(eur_price_normalized) THEN Result(FALSE, None, None)
        ELSE IF NotEqual(normalized_calc_eur, eur_price_normalized)
          THEN Result(TRUE, normalized_calc_eur, eur_price_normalized)
        ELSE Result(FALSE, normalized_calc_eur, None))
     ELSE Result(FALSE, normalized_calc_eur, None)

\* a plausible slip: "bgn_val or 0" in place of the None check
verify_row_none_as_zero(bgn_val, eur_val) ==
  verify_row_body(IF IsNone(bgn_val) THEN Finite(0, <<0>>, 0) ELSE bgn_val, eur_val)

\* verify_row: (is_mismatch, calculated_eur, normalized_eur_given)
verify_row(bgn_val, eur_val) ==
  IF IsNone(bgn_val) THEN Result(FALSE, None, None)
  ELSE verify_row_body(bgn_val, eur_val)

\* a worksheet: its header row (row 1) and its data rows (rows 2, 3, ...)
Sheet(header, rows) == [header |-> header, rows |-> rows]

\* ws.max_row (1 for a sheet with nothing below the header)
SheetMaxRow(ws) == 1 + Len(ws.rows)

\* ws.cell(row, column).value: None for a cell the sheet does not hold
SheetCell(ws, row, column) ==
  IF row - 1 \in 1..Len(ws.rows) /\ column \in 1..Len(ws.rows[row - 1])
    THEN ws.rows[row - 1][column]
    ELSE CellNone

\* a header cell is truthy when it is neither None nor the empty string
Truthy(cell) == cell.tag # "None" /\ PyStr(cell) # <<>>

\* get_column_index: 1-based index of the first header cell whose stripped
\* text is the stripped column name; 0 stands for None
get_column_index(sheet, column_name) ==
  LET target == Strip(column_name)
      hits == {c \in 1..Len(sheet.header) :
                 Truthy(sheet.header[c]) /\ Strip(PyStr(sheet.header[c])) = target}
  IN IF hits = {} THEN 0 ELSE CHOOSE c \in hits : \A d \in hits : c <= d

\* [str(cell.value).strip() for cell in ws[1] if cell.value]
RECURSIVE Headers(_)
Headers(header) ==
  IF header = <<>> THEN <<>>
  ELSE (IF Truthy(Head(header)) THEN <<Strip(PyStr(Head(header)))>> ELSE <<>>)
         \o Headers(Tail(header))

\* ------------------------------------------------------------------------
\* bounds of the model and the inputs it draws
\* ------------------------------------------------------------------------
\* data rows per small table
MaxRows == 2

\* data rows of the long table (the progress bar reports at rows 1, 101, 201)
LongRows == 201

\* int cells are -1..MaxUnits, float cells -0.01..MaxCents/100
MaxUnits == 2

MaxCents == 3

\* the progress bar is updated every 100 rows
ProgressEvery == 100

NameA == <<"A">>

NameB == <<"B">>

HeaderA == CellStr(NameA)

HeaderB == CellStr(NameB)

HeaderAPadded == CellStr(<<" ", "A", " ">>)

HeaderLowerA == CellStr(<<"a">>)

BgnHeaderRows == {<<HeaderA, HeaderB>>, <<HeaderB, HeaderAPadded>>}

EurHeaderRows ==
  {<<HeaderA, HeaderB>>, <<HeaderB, HeaderAPadded>>, <<HeaderA, CellNone>>,
   <<HeaderLowerA, HeaderB>>}

BgnRowPatterns ==
  {<<CellInt(100), CellInt(100)>>,
   <<CellNone, CellStr(<<"1", ",", "9", "5", "5", "8", "3">>)>>}

EurRowPatterns ==
  {<<CellInt(51), CellInt(51)>>,
   <<CellStr(<<"5", "1", ",", "1", "3">>), CellNone>>}

Tables(patterns, most) == UNION {[1..k -> patterns] : k \in 0..most}

\* what st.multiselect can return: the chosen options, each once, in the
\* order they were chosen
Selections(options) ==
  LET S == {options[k] : k \in 1..Len(options)}
  IN UNION {{q \in [1..k -> S] : \A x, y \in 1..k : x # y => q[x] # q[y]} :
            k \in 0..Cardinality(S)}

Texts ==
    {<<"a", "b", "c">>,
     <<>>,
     <<"1", ",", "2", "3", "4", ".", "5", "6">>,
     <<"1", " ", "2", "3", "4", ",", "5", "6">>,
     <<"N", "a", "N">>,
     <<"I", "n", "f", "i", "n", "i", "t", "y">>,
     <<"-", "i", "n", "f">>,
     <<"s", "N", "a", "N">>,
     <<"1", "E", "+", "2", "7">>,
     <<"5", "1", ",", "0", "0">>,
     <<"5", "1", ",", "1", "3">>,
     <<"1", ",", "9", "5", "5", "8", "3">>,
     <<"0", ".", "0", "0", "9", "7", "7", "9", "1", "5">>,
     <<"0", ".", "0", "0", "9", "7", "7", "9", "1", "4", "9", "9", "9", "9", "9", "9", "9", "9", "9", "9", "9", "9", "9", "9", "9", "9", "9", "9", "9", "9", "9", "9", "9", "9">>,
     <<"0", ",", "0", "0", "5">>,
     <<"-", "0", ",", "0", "0", "5">>,
     <<"0", ".", "0", "0">>,
     <<"1", "e", "2">>,
     <<" ", "7", " ">>,
     <<"1", "_", "0">>}

RawCells ==
  {CellNone} \cup {CellInt(n) : n \in (-1..MaxUnits) \cup {100}}
    \cup {CellFloat(n) : n \in (-1..MaxCents) \cup {5100, 5113}}
    \cup {CellFloatSpecial(t) : t \in {<<"n", "a", "n">>, <<"i", "n", "f">>, <<"-", "i", "n", "f">>}}
    \cup {CellStr(t) : t \in Texts}

\* ------------------------------------------------------------------------
\* the state of main() after "Run Verification" is pressed
\* ------------------------------------------------------------------------
VARIABLES
  bgn_ws,            \* the BGN worksheet
  eur_ws,            \* the EUR worksheet
  selected_columns,  \* the column names chosen in the multiselect
  pc,                \* where main() is
  column_map,        \* dict col_name -> (b_idx, e_idx), in insertion order
  k,                 \* position of the mapping loop in selected_columns
  max_row,
  total_rows,
  i,                 \* enumerate index of the processing loop; r = i + 2
  c,                 \* position of the inner loop in column_map
  mismatches,
  progress,          \* what progress_bar.progress was called with
  bgn_cell, eur_cell, bgn_val, eur_val, result,   \* locals of the inner loop
  compared           \* history: the (row, column) pairs verify_row was called for

vars ==
  <<bgn_ws, eur_ws, selected_columns, pc, column_map, k, max_row, total_rows, i, c,
    mismatches, progress, bgn_cell, eur_cell, bgn_val, eur_val, result, compared>>

InitLocals ==
  /\ pc = "button"
  /\ column_map = <<>>
  /\ k = 1
  /\ max_row = 0
  /\ total_rows = 0
  /\ i = 0
  /\ c = 1
  /\ mismatches = <<>>
  /\ progress = <<>>
  /\ bgn_cell = CellNone
  /\ eur_cell = CellNone
  /\ bgn_val = None
  /\ eur_val = None
  /\ result = Result(FALSE, None, None)
  /\ compared = <<>>

\* two small tables of up to MaxRows data rows and two columns
InitSmall ==
  /\ \E h \in BgnHeaderRows, rows \in Tables(BgnRowPatterns, MaxRows) :
       bgn_ws = Sheet(h, rows)
  /\ \E h \in EurHeaderRows, rows \in Tables(EurRowPatterns, MaxRows) :
       eur_ws = Sheet(h, rows)
  /\ selected_columns \in Selections(Headers(bgn_ws.header))
  /\ InitLocals

\* one column of LongRows - 1 or LongRows data rows, the EUR table as long or
\* empty
InitLong ==
  /\ \E n \in {LongRows - 1, LongRows} :
       /\ bgn_ws = Sheet(<<HeaderA>>, [j \in 1..n |-> <<CellInt(100)>>])
       /\ \E m \in {0, n} : eur_ws = Sheet(<<HeaderA>>, [j \in 1..m |-> <<CellInt(51)>>])
  /\ selected_columns = <<NameA>>
  /\ InitLocals

\* one data row of one column: every pair of raw cells
InitPair ==
  /\ \E b \in RawCells : bgn_ws = Sheet(<<HeaderA>>, <<<<b>>>>)
  /\ \E e \in RawCells : eur_ws = Sheet(<<HeaderA>>, <<<<e>>>>)
  /\ selected_columns = <<NameA>>
  /\ InitLocals

Init == InitSmall \/ InitLong \/ InitPair

\* ------------------------------------------------------------------------
\* the steps of main()
\* ------------------------------------------------------------------------
\* column_map[col_name] = value on a dict that keeps insertion order
DictPut(map, col_name, value) ==
  IF \E j \in 1..Len(map) : map[j].name = col_name
    THEN [j \in 1..Len(map) |-> IF map[j].name = col_name THEN value ELSE map[j]]
    ELSE Append(map, value)

\* the dict appended to mismatches
MismatchRecord(r, col_name, bgn, res) ==
  [Row |-> r,
   Column |-> col_name,
   SourceBGN |-> DecimalToString(bgn),
   CalculatedEUR |-> DecimalToString(res.calc_eur),
   FileEUR |-> DecimalToString(res.given_eur),
   Diff |-> DecimalToString(Subtract(res.calc_eur, res.given_eur))]

\* a call of progress_bar.progress
Report(where, num, den) == [where |-> where, num |-> num, den |-> den]

\* a plausible slip: i / total_rows
ProgressFraction_from_zero(idx, total) == Report("loop", idx, total)

\* the fraction the loop reports at enumerate index idx
ProgressFraction(idx, total) == Report("loop", idx + 1, total)

\* the rows at which the loop reports
ReportsAt(idx) == idx % ProgressEvery = 0

\* a plausible slip: the enumerate index taken for the data row number
RowOf_data_row(idx) == idx + 1

\* the worksheet row the processing loop is at: rows_to_check[i]
RowOf(idx) == idx + 2

\* a plausible slip: the BGN sheet alone sets the range
MaxRowOf_bgn_only(bgn, eur) == SheetMaxRow(bgn)

\* max(bgn_ws.max_row, eur_ws.max_row)
MaxRowOf(bgn, eur) == Max(SheetMaxRow(bgn), SheetMaxRow(eur))

\* a plausible slip: range(2, max_row), which leaves the last row out
TotalRowsOf_exclusive(last) == Max(last - 2, 0)

\* len(range(2, max_row + 1))
TotalRowsOf(last) == Max(last - 1, 0)

\* "Run Verification" pressed with nothing selected: st.error and return
RejectEmptySelection ==
  /\ pc = "button"
  /\ selected_columns = <<>>
  /\ pc' = "rejected"
  /\ UNCHANGED <<bgn_ws, eur_ws, selected_columns, column_map, k, max_row, total_rows,
                 i, c, mismatches, progress, bgn_cell, eur_cell, bgn_val, eur_val,
                 result, compared>>

\* "Run Verification" pressed: progress bar at 0, empty mismatches and map
RunVerification ==
  /\ pc = "button"
  /\ selected_columns # <<>>
  /\ progress' = <<Report("start", 0, 100)>>
  /\ mismatches' = <<>>
  /\ column_map' = <<>>
  /\ k' = 1
  /\ pc' = "map"
  /\ UNCHANGED <<bgn_ws, eur_ws, selected_columns, max_row, total_rows, i, c,
                 bgn_cell, eur_cell, bgn_val, eur_val, result, compared>>

\* a plausible slip: only the BGN index is tested
Resolved_bgn_only(b_idx, e_idx) == b_idx # 0

\* "if b_idx and e_idx"
Resolved(b_idx, e_idx) == b_idx # 0 /\ e_idx # 0

\* one iteration of "for col_name in selected_columns"
MapColumn ==
  /\ pc = "map"
  /\ k <= Len(selected_columns)
  /\ LET col_name == selected_columns[k]
         b_idx == get_column_index(bgn_ws, col_name)
         e_idx == get_column_index(eur_ws, col_name)
     IN column_map' =
          IF Resolved(b_idx, e_idx)
            THEN DictPut(column_map, col_name,
                         [name |-> col_name, b_idx |-> b_idx, e_idx |-> e_idx])
            ELSE column_map
  /\ k' = k + 1
  /\ UNCHANGED <<bgn_ws, eur_ws, selected_columns, pc, max_row, total_rows, i, c,
                 mismatches, progress, bgn_cell, eur_cell, bgn_val, eur_val, result,
                 compared>>

\* max_row, rows_to_check = range(2, max_row + 1), total_rows
ComputeRange ==
  /\ pc = "map"
  /\ k > Len(selected_columns)
  /\ max_row' = MaxRowOf(bgn_ws, eur_ws)
  /\ total_rows' = TotalRowsOf(max_row')
  /\ i' = 0
  /\ pc' = "loop"
  /\ UNCHANGED <<bgn_ws, eur_ws, selected_columns, column_map, k, c, mismatches,
                 progress, bgn_cell, eur_cell, bgn_val, eur_val, result, compared>>

\* the head of one iteration of the processing loop: the progress update
\* every ProgressEvery rows.  (i + 1) / total_rows raises ZeroDivisionError
\* for total_rows = 0 and st.progress raises for a float outside [0.0, 1.0];
\* either ends the run in the outer except
BeginRow ==
  /\ pc = "loop"
  /\ i < total_rows
  /\ LET f == ProgressFraction(i, total_rows)
     IN IF ~ReportsAt(i)
          THEN pc' = "cells" /\ progress' = progress
        ELSE IF f.den = 0 \/ f.num < 0 \/ f.num > f.den
          THEN pc' = "crashed" /\ progress' = progress
        ELSE pc' = "cells" /\ progress' = Append(progress, f)
  /\ c' = 1
  /\ UNCHANGED <<bgn_ws, eur_ws, selected_columns, column_map, k, max_row, total_rows,
                 i, mismatches, bgn_cell, eur_cell, bgn_val, eur_val, result, compared>>

\* the body of "for col_name, (b_idx, e_idx) in column_map.items()"
CompareCell ==
  /\ pc = "cells"
  /\ c <= Len(column_map)
  /\ LET r == RowOf(i)
         col_name == column_map[c].name
     IN /\ bgn_cell' = SheetCell(bgn_ws, r, column_map[c].b_idx)
        /\ eur_cell' = SheetCell(eur_ws, r, column_map[c].e_idx)
        /\ bgn_val' = parse_decimal(bgn_cell')
        /\ eur_val' = parse_decimal(eur_cell')
        /\ result' = verify_row(bgn_val', eur_val')
        /\ mismatches' =
             IF result'.is_mismatch
               THEN Append(mismatches, MismatchRecord(r, col_name, bgn_val', result'))
               ELSE mismatches
        /\ compared' = Append(compared, <<r, col_name>>)
  /\ c' = c + 1
  /\ UNCHANGED <<bgn_ws, eur_ws, selected_columns, pc, column_map, k, max_row,
                 total_rows, i, progress>>

\* the inner loop is exhausted: next row
EndRow ==
  /\ pc = "cells"
  /\ c > Len(column_map)
  /\ i' = i + 1
  /\ pc' = "loop"
  /\ UNCHANGED <<bgn_ws, eur_ws, selected_columns, column_map, k, max_row, total_rows,
                 c, mismatches, progress, bgn_cell, eur_cell, bgn_val, eur_val, result,
                 compared>>

\* the processing loop is exhausted: progress_bar.progress(100), "Done."
Finalize ==
  /\ pc = "loop"
  /\ i >= total_rows
  /\ progress' = Append(progress, Report("end", 100, 100))
  /\ pc' = "done"
  /\ UNCHANGED <<bgn_ws, eur_ws, selected_columns, column_map, k, max_row, total_rows,
                 i, c, mismatches, bgn_cell, eur_cell, bgn_val, eur_val, result,
                 compared>>

Next ==
  \/ RejectEmptySelection
  \/ RunVerification
  \/ MapColumn
  \/ ComputeRange
  \/ BeginRow
  \/ CompareCell
  \/ EndRow
  \/ Finalize

Spec == Init /\ [][Next]_vars

\* ------------------------------------------------------------------------
\* exact arithmetic the claims are stated in: amounts in whole cents, with no
\* intermediate rounding
\* ------------------------------------------------------------------------
Cents(neg, cents) == [neg |-> neg, cents |-> cents]

\* int * 10^p / d rounded to a whole number, ties away from zero, for a digit
\* sequence int and an odd or unit divisor d
RoundedQuotient(int, p, d) ==
  IF p >= 0
    THEN LET dm == DigitsDivMod(int \o Zeros(p), d)
             q == StripLeadingZeros(dm.q)
         IN IF 2 * dm.r >= d THEN DigitsInc(q) ELSE q
    ELSE LET padded == PadLeft(int, Max(Len(int), 0 - p))
             hi == Take(padded, Len(padded) + p)
             lo == Drop(padded, Len(padded) + p)
             dm == DigitsDivMod(hi, d)
             q == StripLeadingZeros(dm.q)
             up == 2 * dm.r >= d \/ (d - 2 * dm.r = 1 /\ lo[1] >= 5)
         IN IF up THEN StripLeadingZeros(DigitsInc(q)) ELSE q

\* roundHalfUp2(x) of a finite Decimal x, in cents
RoundHalfUp2(x) == Cents(x.sign = 1, RoundedQuotient(x.int, x.exp + 2, 1))

\* roundHalfUp2(b / 1.95583) of a finite Decimal b, in cents: b * 10^5 / 195583
ExpectedEur(b) == Cents(b.sign = 1, RoundedQuotient(b.int, b.exp + 7, 195583))

CentsEqual(x, y) ==
  /\ StripLeadingZeros(x.cents) = StripLeadingZeros(y.cents)
  /\ (x.neg = y.neg \/ AllZeros(x.cents))

CentsIsZero(x) == AllZeros(x.cents)

\* x < y
CentsLess(x, y) ==
  IF CentsEqual(x, y) THEN FALSE
  ELSE IF AllZeros(x.cents) THEN ~y.neg
  ELSE IF AllZeros(y.cents) THEN x.neg
  ELSE IF x.neg # y.neg THEN x.neg
  ELSE IF x.neg THEN DigitsCmp(x.cents, y.cents) > 0
  ELSE DigitsCmp(x.cents, y.cents) < 0

\* x - y
CentsMinus(x, y) ==
  IF x.neg # y.neg THEN Cents(x.neg, DigitsAdd(x.cents, y.cents))
  ELSE IF DigitsCmp(x.cents, y.cents) >= 0 THEN Cents(x.neg, DigitsSub(x.cents, y.cents))
  ELSE Cents(~x.neg, DigitsSub(y.cents, x.cents))

\* the text of a record field reads as an amount with exactly two decimals
IsAmount2(str) ==
  LET d == DecimalFromString(str) IN d.kind = "F" /\ d.exp = -2

AmountOf(str) == RoundHalfUp2(DecimalFromString(str))

\* a finite decimal number, as opposed to None, NaN and the infinities
IsFinite(x) == x.kind = "F"

\* the inner loop has run for the current row: the locals and, on a mismatch,
\* the last record are those of the pair (RowOf(i), column_map[c - 1])
JustCompared == pc = "cells" /\ c > 1

LastRecord == mismatches[Len(mismatches)]

\* ------------------------------------------------------------------------
\* C1
\* ------------------------------------------------------------------------
\* C1: for every present (finite) BGN amount b and EUR amount e, verify_row
\* reports a mismatch if and only if roundHalfUp2(e) differs from
\* roundHalfUp2(b / 1.95583).  Violated: the quotient is first rounded to 28
\* significant digits (half-even) and a quantize that needs more than 28 digits
\* raises and is swallowed.
C1_MismatchIffRoundedDiffer ==
  (JustCompared /\ IsFinite(bgn_val) /\ IsFinite(eur_val)) =>
    (result.is_mismatch <=> ~CentsEqual(RoundHalfUp2(eur_val), ExpectedEur(bgn_val)))

\* ------------------------------------------------------------------------
\* C2
\* ------------------------------------------------------------------------
\* the parsed value of the cell a record's row and column name
ParsedAt(ws, row, col_name) ==
  parse_decimal(SheetCell(ws, row, get_column_index(ws, col_name)))

\* C2: verify_row with an absent BGN value, or with an absent EUR value,
\* reports no mismatch whatever the other side is, and no record in mismatches
\* is for a cell pair of which a side parsed to None.
C2_AbsenceSuppressesMismatch ==
  /\ JustCompared /\ (IsNone(bgn_val) \/ IsNone(eur_val)) => ~result.is_mismatch
  /\ \A j \in 1..Len(mismatches) :
       /\ ~IsNone(ParsedAt(bgn_ws, mismatches[j].Row, mismatches[j].Column))
       /\ ~IsNone(ParsedAt(eur_ws, mismatches[j].Row, mismatches[j].Column))

\* witness of C2: an unparsable BGN text beside a present EUR amount was
\* compared, and the run ended with no record
C2_Witness ==
  /\ pc = "done"
  /\ compared # <<>>
  /\ bgn_cell = CellStr(<<"a", "b", "c">>)
  /\ IsNone(bgn_val)
  /\ IsFinite(eur_val)
  /\ mismatches = <<>>

\* ------------------------------------------------------------------------
\* C3
\* ------------------------------------------------------------------------
\* the 1-based number of the data row the loop is at (the header not counted)
DataRowOf(idx) == idx + 1

\* C3 as stated: a mismatch in the k-th data row is recorded with Row = k.
C3_RowIsDataRowNumber ==
  (JustCompared /\ result.is_mismatch) => LastRecord.Row = DataRowOf(i)

\* C3 amended: a mismatch in the k-th data row is recorded with Row = k + 1,
\* the row's number in the worksheet (the header is row 1), and the record's
\* source amount is the one that worksheet row holds.
C3_RowIsWorksheetRow ==
  /\ (JustCompared /\ result.is_mismatch) => LastRecord.Row = DataRowOf(i) + 1
  /\ \A j \in 1..Len(mismatches) :
       /\ mismatches[j].Row \in 2..max_row
       /\ mismatches[j].SourceBGN =
            DecimalToString(ParsedAt(bgn_ws, mismatches[j].Row, mismatches[j].Column))

\* witness of C3: a mismatch was recorded for the first data row
C3_Witness ==
  /\ JustCompared
  /\ result.is_mismatch
  /\ DataRowOf(i) = 1
  /\ LastRecord.Row = 2

\* ------------------------------------------------------------------------
\* C4
\* ------------------------------------------------------------------------
\* a column name is in a sheet's header: some header cell, stripped, is the
\* stripped name (case-sensitive)
HeaderHas(ws, col_name) ==
  \E col \in 1..Len(ws.header) :
    /\ ws.header[col].tag = "str"
    /\ ws.header[col].s # <<>>
    /\ Strip(ws.header[col].s) = Strip(col_name)

InBothHeaders(col_name) == HeaderHas(bgn_ws, col_name) /\ HeaderHas(eur_ws, col_name)

\* the selected column names found in both headers, in the selected order
ResolvedNames == SelectSeq(selected_columns, InBothHeaders)

\* rows 2..max(rowCountA, rowCountB) by resolved columns, row-major
ScanOrder ==
  LET cols == ResolvedNames
      last == Max(SheetMaxRow(bgn_ws), SheetMaxRow(eur_ws))
  IN [j \in 1..((last - 1) * Len(cols)) |->
        <<2 + ((j - 1) \div Len(cols)), cols[1 + ((j - 1) % Len(cols))]>>]

ClassifiesAsMismatch(pair) ==
  verify_row(ParsedAt(bgn_ws, pair[1], pair[2]), ParsedAt(eur_ws, pair[1], pair[2])).is_mismatch

RowAndColumn(list) == [j \in 1..Len(list) |-> <<list[j].Row, list[j].Column>>]

\* C4: when the processing loop has finished, mismatches is the row-major scan
\* of rows 2..max by the resolved columns in selected order, filtered to the
\* pairs that classify as Mismatch, and every pair was visited exactly once in
\* that order.
C4_MismatchesAreRowMajorScan ==
  pc = "done" =>
    /\ RowAndColumn(mismatches) = SelectSeq(ScanOrder, ClassifiesAsMismatch)
    /\ compared = ScanOrder

\* witness of C4: a finished run with two resolved columns selected in the
\* order B, A, over two rows, with mismatches in both rows and both columns
C4_Witness ==
  /\ pc = "done"
  /\ selected_columns = <<NameB, NameA>>
  /\ Len(column_map) = 2
  /\ Len(mismatches) = 4
  /\ mismatches[1].Row = 2 /\ mismatches[1].Column = NameB
  /\ mismatches[2].Row = 2 /\ mismatches[2].Column = NameA
  /\ mismatches[4].Row = 3 /\ mismatches[4].Column = NameA

\* ------------------------------------------------------------------------
\* C5
\* ------------------------------------------------------------------------
MappedNames == {column_map[j].name : j \in 1..Len(column_map)}

Selected == {selected_columns[j] : j \in 1..Len(selected_columns)}

MissingNames == {name \in Selected : ~InBothHeaders(name)}

\* C5: a selected column name missing from a header is never in column_map,
\* has no record and no comparison, the run does not abort, and when the run
\* is done every other selected column was compared on every row of the range.
C5_MissingColumnIsSkipped ==
  /\ MappedNames \cap MissingNames = {}
  /\ \A j \in 1..Len(mismatches) : mismatches[j].Column \notin MissingNames
  /\ \A j \in 1..Len(compared) : compared[j][2] \notin MissingNames
  /\ pc # "crashed"
  /\ pc = "done" =>
       \A name \in Selected \ MissingNames :
         \A row \in 2..Max(SheetMaxRow(bgn_ws), SheetMaxRow(eur_ws)) :
           \E j \in 1..Len(compared) : compared[j] = <<row, name>>

\* witness of C5: a finished run in which a selected column is missing from
\* the EUR header and another selected column produced a record
C5_Witness ==
  /\ pc = "done"
  /\ MissingNames # {}
  /\ \E name \in MissingNames : ~HeaderHas(eur_ws, name)
  /\ \E j \in 1..Len(mismatches) : mismatches[j].Column \in Selected \ MissingNames

\* ------------------------------------------------------------------------
\* C6
\* ------------------------------------------------------------------------
\* the rows the loop has finished in full
RowsDone == {compared[j][1] : j \in 1..Len(compared)}

\* C6: the loop scans rows 2..max(rowCountA, rowCountB); in a row past the end
\* of a sheet that sheet's cell reads as empty and parses to None, the pair is
\* no mismatch, no record has a row past the end of either sheet, and the run
\* does not abort.
C6_RowPadding ==
  /\ pc \in {"loop", "cells", "done"} =>
       /\ max_row = Max(SheetMaxRow(bgn_ws), SheetMaxRow(eur_ws))
       /\ i <= max_row - 1
  /\ (pc = "done" /\ column_map # <<>>) => RowsDone = 2..max_row
  /\ JustCompared /\ RowOf(i) > SheetMaxRow(bgn_ws) =>
       bgn_cell = CellNone /\ IsNone(bgn_val) /\ ~result.is_mismatch
  /\ JustCompared /\ RowOf(i) > SheetMaxRow(eur_ws) =>
       eur_cell = CellNone /\ IsNone(eur_val) /\ ~result.is_mismatch
  /\ \A j \in 1..Len(mismatches) :
       mismatches[j].Row <= Min(SheetMaxRow(bgn_ws), SheetMaxRow(eur_ws))
  /\ pc # "crashed"

\* witness of C6: the loop compared a present BGN amount in a row past the end
\* of the (non-empty) EUR table
C6_Witness ==
  /\ JustCompared
  /\ Len(eur_ws.rows) >= 1
  /\ RowOf(i) > SheetMaxRow(eur_ws)
  /\ IsFinite(bgn_val)
  /\ ~result.is_mismatch

\* ------------------------------------------------------------------------
\* C7
\* ------------------------------------------------------------------------
MalformedCells ==
  {CellStr(<<"a", "b", "c">>), CellStr(<<>>),
   CellStr(<<"1", ",", "2", "3", "4", ".", "5", "6">>)}

NonFiniteCells ==
  {CellFloatSpecial(<<"n", "a", "n">>), CellFloatSpecial(<<"i", "n", "f">>),
   CellFloatSpecial(<<"-", "i", "n", "f">>), CellStr(<<"N", "a", "N">>),
   CellStr(<<"s", "N", "a", "N">>), CellStr(<<"I", "n", "f", "i", "n", "i", "t", "y">>),
   CellStr(<<"-", "i", "n", "f">>)}

\* C7: parse_decimal gives None or a finite Decimal and nothing else; it
\* gives None for malformed text and for cells that coerce to NaN or Infinity,
\* and a pair whose BGN side is such a cell is no mismatch.  Violated: NaN and
\* Infinity texts parse to Decimal('NaN') / Decimal('Infinity').
C7_NonNumbersParseToNone ==
  JustCompared =>
    /\ bgn_val.kind \in {"None", "F"}
    /\ eur_val.kind \in {"None", "F"}
    /\ bgn_cell \in MalformedCells \cup NonFiniteCells =>
         IsNone(bgn_val) /\ ~result.is_mismatch
    /\ eur_cell \in MalformedCells \cup NonFiniteCells => IsNone(eur_val)

\* ------------------------------------------------------------------------
\* C8
\* ------------------------------------------------------------------------
\* C8: a mismatch record carries the BGN amount, the expected EUR and the
\* given EUR each rounded to 2 places, and Diff = expected - given, which is
\* not zero and is positive exactly when the given EUR is below the expected.
\* Violated: through the NaN mismatches of C9 (the record holds "NaN") and the
\* double rounding of C1.
C8_RecordCarriesRoundedAmounts ==
  (JustCompared /\ result.is_mismatch) =>
    /\ IsFinite(bgn_val) /\ IsFinite(eur_val)
    /\ DecimalFromString(LastRecord.SourceBGN) = bgn_val
    /\ IsAmount2(LastRecord.CalculatedEUR)
    /\ CentsEqual(AmountOf(LastRecord.CalculatedEUR), ExpectedEur(bgn_val))
    /\ IsAmount2(LastRecord.FileEUR)
    /\ CentsEqual(AmountOf(LastRecord.FileEUR), RoundHalfUp2(eur_val))
    /\ IsAmount2(LastRecord.Diff)
    /\ CentsEqual(AmountOf(LastRecord.Diff),
                  CentsMinus(ExpectedEur(bgn_val), RoundHalfUp2(eur_val)))
    /\ ~CentsIsZero(AmountOf(LastRecord.Diff))
    /\ ~AmountOf(LastRecord.Diff).neg
         <=> CentsLess(RoundHalfUp2(eur_val), ExpectedEur(bgn_val))

\* ------------------------------------------------------------------------
\* C9
\* ------------------------------------------------------------------------
IsNonFinite(x) == x.kind \in {"NaN", "sNaN", "Inf"}

\* C9: verify_row raises nothing, and a NaN or an Infinity on either side is
\* never a mismatch.  Violated: a quiet NaN goes through the division and
\* quantize without raising, and NaN != x is true.
C9_NonFiniteIsNeverMismatch ==
  /\ pc # "crashed"
  /\ (JustCompared /\ (IsNonFinite(bgn_val) \/ IsNonFinite(eur_val))) =>
       ~result.is_mismatch

\* ------------------------------------------------------------------------
\* C10
\* ------------------------------------------------------------------------
LoopReports == SelectSeq(progress, LAMBDA f : f.where = "loop")

\* the number of multiples of ProgressEvery below n
ReportsUpTo(n) == (n + ProgressEvery - 1) \div ProgressEvery

C10_Invariant ==
  /\ pc # "crashed"
  /\ pc \in {"loop", "cells", "done"} =>
       /\ total_rows = Max(SheetMaxRow(bgn_ws), SheetMaxRow(eur_ws)) - 1
       /\ i <= total_rows
  /\ pc = "done" => i = total_rows
  /\ pc = "cells" => i < total_rows /\ c <= Len(column_map) + 1
  /\ \A j \in 1..Len(LoopReports) :
       /\ LoopReports[j].den = total_rows
       /\ LoopReports[j].num = (j - 1) * ProgressEvery + 1
       /\ 0 < LoopReports[j].num
       /\ LoopReports[j].num <= LoopReports[j].den
       /\ j > 1 => LoopReports[j - 1].num * LoopReports[j].den
                     < LoopReports[j].num * LoopReports[j - 1].den
  /\ pc = "cells" => Len(LoopReports) = ReportsUpTo(i + 1)
  /\ pc = "done" => Len(LoopReports) = ReportsUpTo(total_rows)

\* what is left of the processing loop: the rows not begun, each worth its
\* columns and two steps, less the steps taken in the current row
LoopMeasure ==
  IF pc = "loop" THEN (total_rows - i) * (Len(column_map) + 2) + 1
  ELSE IF pc = "cells" THEN (total_rows - i) * (Len(column_map) + 2) - c + 1
  ELSE 0

LoopStepLowersMeasure ==
  pc \in {"loop", "cells"} => (LoopMeasure' >= 0 /\ LoopMeasure' < LoopMeasure)

ReportKeepsMismatches == BeginRow => mismatches' = mismatches

\* C10: for all table sizes, two header-only tables included, the loop ends
\* after exactly max(rowCountA, rowCountB) - 1 iterations and never divides by
\* zero (every step of the loop lowers LoopMeasure, which is never negative);
\* the fractions reported in the loop are (i + 1) / total_rows at
\* i = 0, 100, 200, ..., lie in (0, 1] and strictly increase; and the step that
\* reports leaves mismatches unchanged.
C10_LoopTerminatesAndReports ==
  /\ []C10_Invariant
  /\ [][ReportKeepsMismatches]_vars
  /\ [][LoopStepLowersMeasure]_vars

\* witness of C10: the third report, at row index 200 of 201 rows, with
\* mismatches already recorded
C10_Witness ==
  /\ pc = "cells"
  /\ i = 2 * ProgressEvery
  /\ Len(LoopReports) = 3
  /\ LoopReports[3].num = LoopReports[3].den
  /\ Len(mismatches) >= ProgressEvery

\* a run over two header-only tables ends with no report from the loop
C10_HeaderOnlyWitness ==
  /\ pc = "done"
  /\ bgn_ws.rows = <<>>
  /\ eur_ws.rows = <<>>
  /\ total_rows = 0
  /\ LoopReports = <<>>

====
